---------------------------- MODULE Spec2Model ----------------------------
(***************************************************************************)
(* Model of the file-share scheduler: the next-run calculator              *)
(* (utils/schedule-calculator.ts), the ScheduleChecker cron step and its   *)
(* cleanup pass, and the CreateSchedule API step.                          *)
(*                                                                         *)
(* Instants are whole minutes since 1970-01-01T00:00 of the process-local  *)
(* calendar (setHours(h, m, 0, 0) zeroes seconds and milliseconds, so the  *)
(* calculator's results are whole minutes).  An ISO string written by      *)
(* toISOString() and read back by new Date(iso) denotes the same instant,  *)
(* so stored timestamps are kept as instants.                              *)
(***************************************************************************)
EXTENDS Integers, Sequences, FiniteSets, TLC

(***************************************************************************)
(* The Date calendar                                                       *)
(***************************************************************************)
MinutesPerHour == 60
HoursPerDay == 24
DaysPerWeek == 7
MinutesPerDay == HoursPerDay * MinutesPerHour

\* 1970-01-01 was a Thursday: Date.prototype.getDay() of instant 0 is 4.
EpochWeekday == 4

\* Month lengths of the (non-leap) years 1970 and 1971.
MonthLengths == <<31, 28, 31, 30, 31, 30, 31, 31, 30, 31, 30, 31>>

\* Months are counted from January 1970 (month 0); the model's instants stay
\* inside the first MaxMonth months.
MaxMonth == 23

MonthLen(m) == MonthLengths[(m % 12) + 1]

RECURSIVE MonthStart(_)
\* Day number (days since the epoch) of the first day of month m.
MonthStart(m) == IF m <= 0 THEN 0 ELSE MonthStart(m - 1) + MonthLen(m - 1)

DayOf(t) == t \div MinutesPerDay
MinuteOfDay(t) == t % MinutesPerDay

\* getFullYear()/getMonth() as one month count.
MonthOf(t) == CHOOSE m \in 0..MaxMonth :
                 /\ MonthStart(m) <= DayOf(t)
                 /\ DayOf(t) < MonthStart(m + 1)

\* Date.prototype.getDay(): 0 = Sunday .. 6 = Saturday.
GetDay(t) == (DayOf(t) + EpochWeekday) % DaysPerWeek

\* Date.prototype.getDate(): day of the month, from 1.
GetDate(t) == DayOf(t) - MonthStart(MonthOf(t)) + 1

\* Date.prototype.setDate(d): day d of t's month, overflowing into the
\* neighbouring months; the time of day is kept.
SetDate(t, d) == (MonthStart(MonthOf(t)) + d - 1) * MinutesPerDay + MinuteOfDay(t)

\* Date.prototype.setHours(h, m, 0, 0): h:m on t's day (h >= 24 overflows).
SetHours(t, h, m) == DayOf(t) * MinutesPerDay + h * MinutesPerHour + m

\* new Date(year, month, d): midnight of day d of month m (d = 0 is the last
\* day of the month before).
NewDate(m, d) == (MonthStart(m) + d - 1) * MinutesPerDay

(***************************************************************************)
(* Strings of the configuration                                            *)
(***************************************************************************)
\* A config.time "HH:MM" is kept as its four digits <<H, H, M, M>>; the
\* empty sequence is an absent (or empty) time.
NoTime == <<>>
DefaultTime == <<0, 9, 0, 0>>
DefaultDayOfWeek == "monday"
\* An absent (or empty) dayOfWeek / lastError / lastRun.
NoString == ""
NoInstant == 0 - 1

\* time.split(":").map(Number)
ParseTime(time) == <<time[1] * 10 + time[2], time[3] * 10 + time[4]>>

daysOfWeek == <<"sunday", "monday", "tuesday", "wednesday", "thursday",
                "friday", "saturday">>

\* String.prototype.toLowerCase() on the day names the model stores.
ToLowerCase(s) ==
    CASE s = "Sunday" -> "sunday"
      [] s = "Monday" -> "monday"
      [] s = "Tuesday" -> "tuesday"
      [] s = "Wednesday" -> "wednesday"
      [] s = "Thursday" -> "thursday"
      [] s = "Friday" -> "friday"
      [] s = "Saturday" -> "saturday"
      [] OTHER -> s

\* Array.prototype.indexOf: the 0-based position, -1 when absent.
IndexOf(arr, x) ==
    IF \E i \in 1..Len(arr) : arr[i] = x
    THEN (CHOOSE i \in 1..Len(arr) :
              arr[i] = x /\ \A j \in 1..(i - 1) : arr[j] # x) - 1
    ELSE 0 - 1

\* config.dayOfWeek || "monday": an absent or empty string is falsy.
DayOfWeekOr(a, b) == IF a = NoString THEN b ELSE a

\* config.time || "09:00"
TimeOr(a, b) == IF a = NoTime THEN b ELSE a

(***************************************************************************)
(* utils/schedule-calculator.ts                                            *)
(***************************************************************************)
\* A call returns an instant, throws, or never returns.
Returned(t) == [kind |-> "return", value |-> t, message |-> NoString]
Thrown(msg) == [kind |-> "throw", value |-> NoInstant, message |-> msg]
Hangs == [kind |-> "hang", value |-> NoInstant, message |-> NoString]

\* Mutant: a slot equal to now is not taken for passed.
calculateDailyNextRunKeepsEqual(now, time) ==
    LET hm == ParseTime(time)
        nextRun == SetHours(now, hm[1], hm[2])
    IN  IF nextRun < now
        THEN Returned(SetDate(nextRun, GetDate(nextRun) + 1))
        ELSE Returned(nextRun)

calculateDailyNextRun(now, time) ==
    LET hm == ParseTime(time)
        nextRun == SetHours(now, hm[1], hm[2])
    IN  IF nextRun <= now
        THEN Returned(SetDate(nextRun, GetDate(nextRun) + 1))
        ELSE Returned(nextRun)

\* Mutant: on the target weekday today's slot is returned, passed or not.
calculateWeeklyNextRunNeverRolls(now, dayOfWeek, time) ==
    LET targetDay == IndexOf(daysOfWeek, ToLowerCase(dayOfWeek))
        currentDay == GetDay(now)
        hm == ParseTime(time)
        diff == targetDay - currentDay
        daysUntilTarget == IF diff < 0 THEN diff + DaysPerWeek ELSE diff
    IN  Returned(SetHours(SetDate(now, GetDate(now) + daysUntilTarget),
                          hm[1], hm[2]))

calculateWeeklyNextRun(now, dayOfWeek, time) ==
    LET targetDay == IndexOf(daysOfWeek, ToLowerCase(dayOfWeek))
        currentDay == GetDay(now)
        hm == ParseTime(time)
        diff == targetDay - currentDay
        today == SetHours(now, hm[1], hm[2])
        daysUntilTarget ==
            IF diff < 0 THEN diff + DaysPerWeek
            ELSE IF diff = 0 THEN (IF today <= now THEN DaysPerWeek ELSE 0)
            ELSE diff
        \* nextRun as it is when setDate is reached: setHours has been
        \* applied to it only in the diff = 0 branch.
        nextRun == IF diff = 0 THEN today ELSE now
    IN  Returned(SetHours(SetDate(nextRun, GetDate(now) + daysUntilTarget),
                          hm[1], hm[2]))

RECURSIVE ScanWeekday(_, _, _, _)
\* while (nextRun.getDay() !== targetDay) nextRun.setDate(getDate() + step).
\* The weekday of t + k days has period DaysPerWeek in k, so a scan that has
\* not met targetDay after DaysPerWeek steps never does: NoInstant then
\* stands for the loop that does not end.
ScanWeekday(t, targetDay, step, fuel) ==
    IF GetDay(t) = targetDay THEN t
    ELSE IF fuel = 0 THEN NoInstant
    ELSE ScanWeekday(SetDate(t, GetDate(t) + step), targetDay, step, fuel - 1)

MonthlyResult(now, first, second, hm) ==
    IF first = NoInstant THEN Hangs
    ELSE IF SetHours(first, hm[1], hm[2]) <= now
         THEN IF second = NoInstant THEN Hangs
              ELSE Returned(SetHours(second, hm[1], hm[2]))
         ELSE Returned(SetHours(first, hm[1], hm[2]))

calculateMonthlyFirstWeekdayNextRun(now, dayOfWeek, time) ==
    LET targetDay == IndexOf(daysOfWeek, ToLowerCase(dayOfWeek))
        hm == ParseTime(time)
        first == ScanWeekday(NewDate(MonthOf(now), 1), targetDay, 1, DaysPerWeek)
        second == ScanWeekday(NewDate(MonthOf(now) + 1, 1), targetDay, 1,
                              DaysPerWeek)
    IN  MonthlyResult(now, first, second, hm)

\* Mutant: the second scan starts from the last day of the current month
\* again.
calculateMonthlyLastWeekdayNextRunSameMonth(now, dayOfWeek, time) ==
    LET targetDay == IndexOf(daysOfWeek, ToLowerCase(dayOfWeek))
        hm == ParseTime(time)
        first == ScanWeekday(NewDate(MonthOf(now) + 1, 0), targetDay, 0 - 1,
                             DaysPerWeek)
    IN  MonthlyResult(now, first, first, hm)

calculateMonthlyLastWeekdayNextRun(now, dayOfWeek, time) ==
    LET targetDay == IndexOf(daysOfWeek, ToLowerCase(dayOfWeek))
        hm == ParseTime(time)
        first == ScanWeekday(NewDate(MonthOf(now) + 1, 0), targetDay, 0 - 1,
                             DaysPerWeek)
        second == ScanWeekday(NewDate(MonthOf(now) + 2, 0), targetDay, 0 - 1,
                              DaysPerWeek)
    IN  MonthlyResult(now, first, second, hm)

\* The scheduleType tags the switch has a case for.
SupportedTypes == {"daily", "weekly", "monthly-first-weekday",
                   "monthly-last-weekday", "custom"}

\* Mutant: the custom branch reads config.cronExpression and takes the hour
\* of its second field for the slot.
calculateNextRunReadsCron(scheduleType, config, timezone, now) ==
    CASE scheduleType = "daily" ->
           calculateDailyNextRun(now, TimeOr(config.time, DefaultTime))
      [] scheduleType = "weekly" ->
           calculateWeeklyNextRun(now, DayOfWeekOr(config.dayOfWeek, DefaultDayOfWeek),
                                  TimeOr(config.time, DefaultTime))
      [] scheduleType = "monthly-first-weekday" ->
           calculateMonthlyFirstWeekdayNextRun(
               now, DayOfWeekOr(config.dayOfWeek, DefaultDayOfWeek),
               TimeOr(config.time, DefaultTime))
      [] scheduleType = "monthly-last-weekday" ->
           calculateMonthlyLastWeekdayNextRun(
               now, DayOfWeekOr(config.dayOfWeek, DefaultDayOfWeek),
               TimeOr(config.time, DefaultTime))
      [] scheduleType = "custom" ->
           IF config.cronExpression = NoString
           THEN calculateDailyNextRun(now, TimeOr(config.time, DefaultTime))
           ELSE calculateDailyNextRun(now, <<1, 2, 0, 0>>)
      [] OTHER -> Thrown("Unsupported schedule type")

\* Mutant: for a timezone other than UTC the clock reading is moved by the
\* zone's offset before the slot is computed.
calculateNextRunAppliesZone(scheduleType, config, timezone, now) ==
    LET local == IF timezone = "UTC" THEN now ELSE now - 5 * MinutesPerHour
    IN  CASE scheduleType = "daily" ->
               calculateDailyNextRun(local, TimeOr(config.time, DefaultTime))
          [] scheduleType = "weekly" ->
               calculateWeeklyNextRun(
                   local, DayOfWeekOr(config.dayOfWeek, DefaultDayOfWeek),
                   TimeOr(config.time, DefaultTime))
          [] scheduleType = "monthly-first-weekday" ->
               calculateMonthlyFirstWeekdayNextRun(
                   local, DayOfWeekOr(config.dayOfWeek, DefaultDayOfWeek),
                   TimeOr(config.time, DefaultTime))
          [] scheduleType = "monthly-last-weekday" ->
               calculateMonthlyLastWeekdayNextRun(
                   local, DayOfWeekOr(config.dayOfWeek, DefaultDayOfWeek),
                   TimeOr(config.time, DefaultTime))
          [] scheduleType = "custom" ->
               calculateDailyNextRun(local, TimeOr(config.time, DefaultTime))
          [] OTHER -> Thrown("Unsupported schedule type")

\* calculateNextRun with the clock reading `now` of its first line made an
\* argument; the timezone argument is passed on and never read.
calculateNextRun(scheduleType, config, timezone, now) ==
    CASE scheduleType = "daily" ->
           calculateDailyNextRun(now, TimeOr(config.time, DefaultTime))
      [] scheduleType = "weekly" ->
           calculateWeeklyNextRun(now, DayOfWeekOr(config.dayOfWeek, DefaultDayOfWeek),
                                  TimeOr(config.time, DefaultTime))
      [] scheduleType = "monthly-first-weekday" ->
           calculateMonthlyFirstWeekdayNextRun(
               now, DayOfWeekOr(config.dayOfWeek, DefaultDayOfWeek),
               TimeOr(config.time, DefaultTime))
      [] scheduleType = "monthly-last-weekday" ->
           calculateMonthlyLastWeekdayNextRun(
               now, DayOfWeekOr(config.dayOfWeek, DefaultDayOfWeek),
               TimeOr(config.time, DefaultTime))
      [] scheduleType = "custom" ->
           calculateDailyNextRun(now, TimeOr(config.time, DefaultTime))
      [] OTHER -> Thrown("Unsupported schedule type")

(***************************************************************************)
(* Bounds of the model                                                     *)
(***************************************************************************)
\* The events the environment contributes to one behaviour: ScheduleChecker
\* invocations, clock advances, CreateSchedule requests, and failures of a
\* storage or emit call.
MaxEvents == 3

\* The clock starts on Saturday 1970-02-28 at 08:59, the last day of a month
\* and one minute before the default 09:00 slot.
StartInstant == NewDate(1, 28) + 8 * MinutesPerHour + 59

\* The clock advances a minute at a time: from just before the 09:00 slot
\* to it and past it.
TickSteps == {1}

(***************************************************************************)
(* The stored FileSchedule records                                         *)
(***************************************************************************)
RetentionDays == 30

Customers == <<"acme", "bolt", "core">>

\* `schedule-${customerId}-${Date.now()}`
ScheduleId(customerId, now) == <<customerId, now>>

Config(dayOfWeek, time) ==
    [dayOfWeek |-> dayOfWeek, time |-> time, cronExpression |-> NoString]

Schedule(customerId, createdAt, scheduleType, config, status, nextRun, updatedAt, lastError) ==
    [scheduleId |-> ScheduleId(customerId, createdAt),
     customerId |-> customerId,
     customerEmail |-> "ops@example.com",
     scheduleType |-> scheduleType,
     nextRun |-> nextRun,
     lastRun |-> NoInstant,
     timezone |-> "UTC",
     fileType |-> "products",
     format |-> "excel",
     status |-> status,
     config |-> config,
     createdAt |-> createdAt,
     updatedAt |-> updatedAt,
     executionCount |-> 0,
     lastError |-> lastError]

\* The records found in storage when the model starts.  Storage is an
\* external collaborator: besides what CreateSchedule validates it may hold
\* paused and failed records, an unsupported scheduleType and a dayOfWeek
\* that is no weekday name.
SeedCreatedAt == StartInstant - 40 * MinutesPerDay
Overdue == StartInstant - 3 * MinutesPerDay
DaysAgo(n) == StartInstant - n * MinutesPerDay

ActiveSeed(c, scheduleType, dayOfWeek, time, nextRun) ==
    Schedule(c, SeedCreatedAt, scheduleType, Config(dayOfWeek, time), "active",
             nextRun, SeedCreatedAt, NoString)

FailedSeed(c, updatedAt) ==
    Schedule(c, SeedCreatedAt, "daily", Config(NoString, NoTime), "failed",
             Overdue, updatedAt, "Unsupported schedule type")

FullSeeds(c) ==
    { ActiveSeed(c, "daily", NoString, NoTime, StartInstant),
      ActiveSeed(c, "daily", NoString, NoTime, Overdue),
      ActiveSeed(c, "daily", NoString, NoTime, StartInstant + 1),
      ActiveSeed(c, "weekly", "funday", NoTime, StartInstant),
      ActiveSeed(c, "monthly-first-weekday", "funday", NoTime, StartInstant),
      ActiveSeed(c, "monthly-last-weekday", "Friday", <<1, 7, 3, 0>>, StartInstant),
      ActiveSeed(c, "hourly", NoString, NoTime, StartInstant),
      Schedule(c, SeedCreatedAt, "daily", Config(NoString, NoTime), "paused",
               Overdue, DaysAgo(RetentionDays + 1), NoString),
      FailedSeed(c, DaysAgo(RetentionDays + 1)),
      FailedSeed(c, DaysAgo(RetentionDays)),
      FailedSeed(c, DaysAgo(RetentionDays - 1)) }

\* The third record only completes the three-record batches.
ThirdSeeds(c) ==
    { ActiveSeed(c, "hourly", NoString, NoTime, StartInstant),
      ActiveSeed(c, "hourly", NoString, NoTime, StartInstant + 1),
      ActiveSeed(c, "daily", NoString, NoTime, StartInstant + 1) }

SeedStores ==
    { [id \in {r.scheduleId : r \in rs} |->
          CHOOSE r \in rs : r.scheduleId = id] :
      rs \in { a \cup b \cup c :
                 a \in {{}} \cup {{r} : r \in FullSeeds(Customers[1])},
                 b \in {{}} \cup {{r} : r \in FullSeeds(Customers[2])},
                 c \in {{}} \cup {{r} : r \in ThirdSeeds(Customers[3])} } }

\* The bodies CreateSchedule's bodySchema lets through, as far as the model
\* draws them.
CreateRequests ==
    [customerId : {Customers[1]},
     scheduleType : {"daily", "weekly"},
     config : {Config(NoString, NoTime)},
     timezone : {"UTC"}]

(***************************************************************************)
(* State                                                                   *)
(***************************************************************************)
VARIABLES
    store,            \* the "file_schedules" state group: scheduleId -> record
    clock,            \* what new Date() / Date.now() reads
    pc,               \* where the ScheduleChecker handler stands
    allSchedules,     \* handler: the loaded array (its elements are mutated)
    idx,              \* handler: position of the for loop
    currentTime,      \* handler: the invocation instant
    scheduleError,    \* handler: the message of the error just caught
    awaiting,         \* handler: suspended at the await of a call just made
    cleanupSchedules, \* cleanupOldSchedules: the array it loaded
    thirtyDaysAgo,    \* cleanupOldSchedules: its cut-off
    cidx,             \* cleanupOldSchedules: position of its loop
    emitted,          \* file.generate events of the current invocation
    inv,              \* log of the current invocation
    used,             \* environment events so far
    call,             \* calculator called on its own: the arguments and clock
    result            \* calculator called on its own: how the call ended

vars == <<store, clock, pc, allSchedules, idx, currentTime, scheduleError,
          awaiting, cleanupSchedules, thirtyDaysAgo, cidx, emitted, inv, used,
          call, result>>

handlerVars == <<allSchedules, idx, currentTime, scheduleError>>
cleanupVars == <<cleanupSchedules, thirtyDaysAgo, cidx>>
calcVars == <<call, result>>

\* The log of an invocation: its number, how it ended, the group as it was
\* when the invocation began, the state.set and state.delete calls made, the
\* calls that failed, whether and when cleanupOldSchedules was entered, and
\* the clock readings the calculator took.
NoInvocation ==
    [n |-> 0, outcome |-> "none", startStore |-> <<>>, sets |-> <<>>,
     deletes |-> <<>>, faults |-> {}, pruned |-> FALSE, prunedAt |-> NoInstant,
     calcAt |-> {}]

\* No call of the calculator on its own has been made.
NoCall ==
    [scheduleType |-> NoString, config |-> Config(NoString, NoTime),
     timezone |-> "UTC", now |-> NoInstant]
NotCalled == [kind |-> "none", value |-> NoInstant, message |-> NoString]

Init ==
    /\ call = NoCall
    /\ result = NotCalled
    /\ store \in SeedStores
    /\ clock = StartInstant
    /\ pc = "idle"
    /\ allSchedules = <<>>
    /\ idx = 0
    /\ currentTime = NoInstant
    /\ scheduleError = NoString
    /\ awaiting = FALSE
    /\ cleanupSchedules = <<>>
    /\ thirtyDaysAgo = NoInstant
    /\ cidx = 0
    /\ emitted = <<>>
    /\ inv = NoInvocation
    /\ used = 0

(***************************************************************************)
(* The storage collaborator                                                *)
(***************************************************************************)
CustomerRank(c) == CHOOSE i \in 1..Len(Customers) : Customers[i] = c

\* Key order of the group: by customer, then by creation instant.
IdBefore(a, b) ==
    \/ CustomerRank(a[1]) < CustomerRank(b[1])
    \/ a[1] = b[1] /\ a[2] < b[2]

\* state.getGroup("file_schedules"): the records, in key order.
getGroup(s) ==
    LET n == Cardinality(DOMAIN s)
        order == CHOOSE f \in [1..n -> DOMAIN s] :
                     \A i, j \in 1..n : i < j => IdBefore(f[i], f[j])
    IN  [i \in 1..n |-> s[order[i]]]

\* Mutant: the write replaces the whole group by the one record.
StateSetReplacesGroup(s, id, record) == [k \in {id} |-> record]

\* state.set("file_schedules", id, record): insert or overwrite.
StateSet(s, id, record) ==
    [k \in DOMAIN s \cup {id} |-> IF k = id THEN record ELSE s[k]]

\* state.delete("file_schedules", id)
StateDelete(s, id) == [k \in DOMAIN s \ {id} |-> s[k]]

(***************************************************************************)
(* ScheduleChecker: what the handler computes                              *)
(***************************************************************************)
\* Mutant: only failed schedules are skipped, paused ones are processed.
ShouldSkipFailedOnly(schedule) == schedule.status = "failed"

\* schedule.status !== "active"
ShouldSkip(schedule) == schedule.status # "active"

\* Mutant: a schedule due within the next minute counts as due.
IsDueOrSoon(now, scheduledTime) == now + 1 >= scheduledTime

\* currentTime >= scheduledTime
IsDue(now, scheduledTime) == now >= scheduledTime

FileGenerateEvent(schedule) ==
    [topic |-> "file.generate",
     data |-> [scheduleId |-> schedule.scheduleId,
               customerId |-> schedule.customerId,
               customerEmail |-> schedule.customerEmail,
               fileType |-> schedule.fileType,
               format |-> schedule.format]]

\* Mutant: the event is emitted twice.
EmittedForTwice(schedule) ==
    <<FileGenerateEvent(schedule), FileGenerateEvent(schedule)>>

\* The events one due schedule puts on the topic: one emit call.
EmittedFor(schedule) == <<FileGenerateEvent(schedule)>>

\* Mutant: a dispatched schedule is stored as failed.
DispatchedMarkedFailed(schedule, now, nextRun) ==
    [schedule EXCEPT !.lastRun = now,
                     !.nextRun = nextRun,
                     !.executionCount = @ + 1,
                     !.updatedAt = now,
                     !.status = "failed"]

\* The in-place update of a dispatched schedule.
Dispatched(schedule, now, nextRun) ==
    [schedule EXCEPT !.lastRun = now,
                     !.nextRun = nextRun,
                     !.executionCount = @ + 1,
                     !.updatedAt = now]

\* Mutant: the catch counts the failed attempt as an execution.
QuarantinedCountsExecution(schedule, message, now) ==
    [schedule EXCEPT !.status = "failed",
                     !.lastError = message,
                     !.updatedAt = now,
                     !.executionCount = @ + 1]

\* Mutant: the catch marks the record failed without refreshing updatedAt.
QuarantinedKeepsUpdatedAt(schedule, message, now) ==
    [schedule EXCEPT !.status = "failed",
                     !.lastError = message]

\* Mutant: the catch marks the record failed but drops the error message.
QuarantinedWithoutError(schedule, message, now) ==
    [schedule EXCEPT !.status = "failed",
                     !.updatedAt = now]

\* The in-place update of the per-record catch; `now` is its own new Date().
Quarantined(schedule, message, now) ==
    [schedule EXCEPT !.status = "failed",
                     !.lastError = message,
                     !.updatedAt = now]

\* Mutant: a record exactly at the cut-off is pruned too.
ShouldPruneInclusive(schedule, cutoff) ==
    /\ schedule.status = "failed"
    /\ schedule.updatedAt # NoInstant
    /\ schedule.updatedAt <= cutoff

\* cleanupOldSchedules: failed, with an updatedAt before the cut-off.
ShouldPrune(schedule, cutoff) ==
    /\ schedule.status = "failed"
    /\ schedule.updatedAt # NoInstant
    /\ schedule.updatedAt < cutoff

Retention == RetentionDays * HoursPerDay * MinutesPerHour

(***************************************************************************)
(* ScheduleChecker: the handler's steps                                    *)
(***************************************************************************)
\* The step takes n more of the environment's events.
Spend(n) == used + n <= MaxEvents /\ used' = used + n

Current == allSchedules[idx]
InLoop == pc = "loop" /\ idx <= Len(allSchedules)

Begin(outcome) ==
    /\ pc = "idle"
    /\ emitted' = <<>>
    /\ scheduleError' = NoString
    /\ cleanupSchedules' = <<>>
    /\ thirtyDaysAgo' = NoInstant
    /\ cidx' = 0
    /\ UNCHANGED <<store, clock>>

\* Mutant: a failed load is taken for an empty batch and the handler goes
\* on to cleanupOldSchedules.
PollLoadFailsThenPrunes ==
    /\ Begin("loadFailed")
    /\ awaiting' = FALSE
    /\ UNCHANGED calcVars
    /\ Spend(2)
    /\ inv' = [NoInvocation EXCEPT !.n = inv.n + 1,
                                   !.outcome = "running",
                                   !.startStore = store,
                                   !.faults = {"load"}]
    /\ pc' = "loop"
    /\ allSchedules' = <<>>
    /\ idx' = 1
    /\ currentTime' = clock

\* getGroup fails: the outer catch logs and the invocation ends.
PollLoadFails ==
    /\ Begin("loadFailed")
    /\ awaiting' = FALSE
    /\ UNCHANGED calcVars
    /\ Spend(2)
    /\ inv' = [NoInvocation EXCEPT !.n = inv.n + 1,
                                   !.outcome = "loadFailed",
                                   !.startStore = store,
                                   !.faults = {"load"}]
    /\ pc' = "idle"
    /\ allSchedules' = <<>>
    /\ idx' = 0
    /\ currentTime' = NoInstant

\* No schedules found: return.
PollEmpty ==
    /\ Begin("empty")
    /\ awaiting' = FALSE
    /\ UNCHANGED calcVars
    /\ DOMAIN store = {}
    /\ Spend(1)
    /\ inv' = [NoInvocation EXCEPT !.n = inv.n + 1,
                                   !.outcome = "empty",
                                   !.startStore = store]
    /\ pc' = "idle"
    /\ allSchedules' = <<>>
    /\ idx' = 0
    /\ currentTime' = NoInstant

PollStart ==
    /\ Begin("running")
    /\ awaiting' = FALSE
    /\ UNCHANGED calcVars
    /\ DOMAIN store # {}
    /\ Spend(1)
    /\ inv' = [NoInvocation EXCEPT !.n = inv.n + 1,
                                   !.outcome = "running",
                                   !.startStore = store]
    /\ pc' = "loop"
    /\ allSchedules' = getGroup(store)
    /\ idx' = 1
    /\ currentTime' = clock

SkipInactive ==
    /\ InLoop
    /\ awaiting' = FALSE
    /\ UNCHANGED calcVars
    /\ ShouldSkip(Current)
    /\ idx' = idx + 1
    /\ UNCHANGED <<store, clock, pc, allSchedules, currentTime, scheduleError,
                   cleanupVars, emitted, inv, used>>

NotDue ==
    /\ InLoop
    /\ awaiting' = FALSE
    /\ UNCHANGED calcVars
    /\ ~ShouldSkip(Current)
    /\ ~IsDue(currentTime, Current.nextRun)
    /\ idx' = idx + 1
    /\ UNCHANGED <<store, clock, pc, allSchedules, currentTime, scheduleError,
                   cleanupVars, emitted, inv, used>>

EmitOk ==
    /\ InLoop
    /\ awaiting' = TRUE
    /\ UNCHANGED calcVars
    /\ ~ShouldSkip(Current)
    /\ IsDue(currentTime, Current.nextRun)
    /\ emitted' = emitted \o EmittedFor(Current)
    /\ pc' = "emitted"
    /\ UNCHANGED <<store, clock, handlerVars, cleanupVars, inv, used>>

EmitFails ==
    /\ InLoop
    /\ awaiting' = FALSE
    /\ UNCHANGED calcVars
    /\ ~ShouldSkip(Current)
    /\ IsDue(currentTime, Current.nextRun)
    /\ Spend(1)
    /\ inv' = [inv EXCEPT !.faults = @ \cup {"emit"}]
    /\ pc' = "catch"
    /\ scheduleError' = "emit failed"
    /\ UNCHANGED <<store, clock, allSchedules, idx, currentTime, cleanupVars,
                   emitted>>

\* The calculator's reading of the clock is taken when it is called, after
\* the emit has resolved.
NextRunNow == calculateNextRun(Current.scheduleType, Current.config,
                               Current.timezone, clock)

CalcThrows ==
    /\ pc = "emitted"
    /\ awaiting' = FALSE
    /\ UNCHANGED calcVars
    /\ NextRunNow.kind = "throw"
    /\ pc' = "catch"
    /\ scheduleError' = NextRunNow.message
    /\ UNCHANGED <<store, clock, allSchedules, idx, currentTime, cleanupVars,
                   emitted, inv, used>>

\* The scan of a monthly calculator never ends: the handler (and the event
\* loop with it) stays inside the call.
CalcHangs ==
    /\ pc = "emitted"
    /\ awaiting' = FALSE
    /\ UNCHANGED calcVars
    /\ NextRunNow.kind = "hang"
    /\ pc' = "hung"
    /\ UNCHANGED <<store, clock, handlerVars, cleanupVars, emitted, inv, used>>

LogSet(kind, ok) ==
    Append(inv.sets, [id |-> Current.scheduleId, kind |-> kind, ok |-> ok])

PersistOk ==
    /\ pc = "emitted"
    /\ awaiting' = TRUE
    /\ UNCHANGED calcVars
    /\ NextRunNow.kind = "return"
    /\ LET updated == Dispatched(Current, currentTime, NextRunNow.value)
       IN  /\ allSchedules' = [allSchedules EXCEPT ![idx] = updated]
           /\ store' = StateSet(store, updated.scheduleId, updated)
    /\ inv' = [inv EXCEPT !.sets = LogSet("dispatch", TRUE),
                          !.calcAt = @ \cup {<<Current.scheduleId, clock>>}]
    /\ idx' = idx + 1
    /\ pc' = "loop"
    /\ UNCHANGED <<clock, currentTime, scheduleError, cleanupVars, emitted, used>>

PersistFails ==
    /\ pc = "emitted"
    /\ awaiting' = FALSE
    /\ UNCHANGED calcVars
    /\ NextRunNow.kind = "return"
    /\ Spend(1)
    /\ allSchedules' = [allSchedules EXCEPT
                          ![idx] = Dispatched(Current, currentTime,
                                              NextRunNow.value)]
    /\ inv' = [inv EXCEPT !.sets = LogSet("dispatch", FALSE),
                          !.faults = @ \cup {"set"},
                          !.calcAt = @ \cup {<<Current.scheduleId, clock>>}]
    /\ pc' = "catch"
    /\ scheduleError' = "state.set failed"
    /\ UNCHANGED <<store, clock, idx, currentTime, cleanupVars, emitted>>

\* The per-record catch, its write succeeding.
CatchPersistOk ==
    /\ pc = "catch"
    /\ awaiting' = TRUE
    /\ UNCHANGED calcVars
    /\ LET failed == Quarantined(Current, scheduleError, clock)
       IN  /\ allSchedules' = [allSchedules EXCEPT ![idx] = failed]
           /\ store' = StateSet(store, failed.scheduleId, failed)
    /\ inv' = [inv EXCEPT !.sets = LogSet("quarantine", TRUE)]
    /\ idx' = idx + 1
    /\ pc' = "loop"
    /\ UNCHANGED <<clock, currentTime, scheduleError, cleanupVars, emitted, used>>

\* The per-record catch, its write failing: the error leaves the loop and
\* reaches the outer catch, which logs it; the invocation ends there.
CatchPersistFails ==
    /\ pc = "catch"
    /\ awaiting' = FALSE
    /\ UNCHANGED calcVars
    /\ Spend(1)
    /\ allSchedules' = [allSchedules EXCEPT
                          ![idx] = Quarantined(Current, scheduleError, clock)]
    /\ inv' = [inv EXCEPT !.sets = LogSet("quarantine", FALSE),
                          !.faults = @ \cup {"catchSet"},
                          !.outcome = "aborted"]
    /\ pc' = "idle"
    /\ UNCHANGED <<store, clock, idx, currentTime, scheduleError, cleanupVars,
                   emitted>>

(***************************************************************************)
(* cleanupOldSchedules                                                     *)
(***************************************************************************)
LoopDone == pc = "loop" /\ idx > Len(allSchedules)

CleanupLoadOk ==
    /\ LoopDone
    /\ awaiting' = FALSE
    /\ UNCHANGED calcVars
    /\ cleanupSchedules' = getGroup(store)
    /\ thirtyDaysAgo' = clock - Retention
    /\ cidx' = 1
    /\ pc' = "cleanup"
    /\ inv' = [inv EXCEPT !.pruned = TRUE, !.prunedAt = clock]
    /\ UNCHANGED <<store, clock, handlerVars, emitted, used>>

\* getGroup fails inside cleanupOldSchedules: its own catch warns.
CleanupLoadFails ==
    /\ LoopDone
    /\ awaiting' = FALSE
    /\ UNCHANGED calcVars
    /\ Spend(1)
    /\ inv' = [inv EXCEPT !.pruned = TRUE,
                          !.prunedAt = clock,
                          !.faults = @ \cup {"cleanupLoad"},
                          !.outcome = "completed"]
    /\ pc' = "idle"
    /\ UNCHANGED <<store, clock, handlerVars, cleanupVars, emitted>>

InCleanup == pc = "cleanup" /\ cidx <= Len(cleanupSchedules)

CleanupKeep ==
    /\ InCleanup
    /\ awaiting' = FALSE
    /\ UNCHANGED calcVars
    /\ ~ShouldPrune(cleanupSchedules[cidx], thirtyDaysAgo)
    /\ cidx' = cidx + 1
    /\ UNCHANGED <<store, clock, pc, handlerVars, cleanupSchedules,
                   thirtyDaysAgo, emitted, inv, used>>

LogDelete(ok) ==
    Append(inv.deletes, [id |-> cleanupSchedules[cidx].scheduleId, ok |-> ok])

CleanupDeleteOk ==
    /\ InCleanup
    /\ awaiting' = TRUE
    /\ UNCHANGED calcVars
    /\ ShouldPrune(cleanupSchedules[cidx], thirtyDaysAgo)
    /\ store' = StateDelete(store, cleanupSchedules[cidx].scheduleId)
    /\ inv' = [inv EXCEPT !.deletes = LogDelete(TRUE)]
    /\ cidx' = cidx + 1
    /\ UNCHANGED <<clock, pc, handlerVars, cleanupSchedules, thirtyDaysAgo,
                   emitted, used>>

\* Mutant: cleanupOldSchedules has no catch of its own and the handler's
\* promise is rejected with the error of state.delete.
CleanupDeleteFailsRejects ==
    /\ InCleanup
    /\ awaiting' = FALSE
    /\ UNCHANGED calcVars
    /\ ShouldPrune(cleanupSchedules[cidx], thirtyDaysAgo)
    /\ Spend(1)
    /\ inv' = [inv EXCEPT !.deletes = LogDelete(FALSE),
                          !.faults = @ \cup {"delete"},
                          !.outcome = "rejected"]
    /\ pc' = "idle"
    /\ UNCHANGED <<store, clock, handlerVars, cleanupVars, emitted>>

CleanupDeleteFails ==
    /\ InCleanup
    /\ awaiting' = FALSE
    /\ UNCHANGED calcVars
    /\ ShouldPrune(cleanupSchedules[cidx], thirtyDaysAgo)
    /\ Spend(1)
    /\ inv' = [inv EXCEPT !.deletes = LogDelete(FALSE),
                          !.faults = @ \cup {"delete"},
                          !.outcome = "completed"]
    /\ pc' = "idle"
    /\ UNCHANGED <<store, clock, handlerVars, cleanupVars, emitted>>

CleanupDone ==
    /\ pc = "cleanup"
    /\ awaiting' = FALSE
    /\ UNCHANGED calcVars
    /\ cidx > Len(cleanupSchedules)
    /\ inv' = [inv EXCEPT !.outcome = "completed"]
    /\ pc' = "idle"
    /\ UNCHANGED <<store, clock, handlerVars, cleanupVars, emitted, used>>

(***************************************************************************)
(* The clock and CreateSchedule                                            *)
(***************************************************************************)
\* The handler is not running, or is suspended at an await: of the emit, of
\* the state.set or state.delete just called, or of cleanupOldSchedules'
\* getGroup.  Between two awaits it runs without interruption.
Suspended ==
    \/ pc \in {"idle", "emitted"}
    \/ pc \in {"loop", "cleanup"} /\ awaiting
    \/ pc = "loop" /\ idx > Len(allSchedules)

\* Time passes while the handler is suspended, and inside a calculator call
\* that does not return.
Tick(d) ==
    /\ Suspended \/ pc = "hung"
    /\ UNCHANGED awaiting
    /\ UNCHANGED calcVars
    /\ Spend(1)
    /\ clock' = clock + d
    /\ UNCHANGED <<store, pc, handlerVars, cleanupVars, emitted, inv>>

\* The handlers share one event loop: a request is served while the checker
\* is suspended (or is not running).
CanServe == Suspended

NewSchedule(req, now, nextRun) ==
    [Schedule(req.customerId, now, req.scheduleType, req.config, "active",
              nextRun, now, NoString) EXCEPT !.timezone = req.timezone]

CreateScheduleOk(req) ==
    /\ CanServe
    /\ UNCHANGED awaiting
    /\ UNCHANGED calcVars
    /\ Spend(1)
    /\ LET r == calculateNextRun(req.scheduleType, req.config, req.timezone,
                                 clock)
       IN  /\ r.kind = "return"
           /\ store' = StateSet(store, ScheduleId(req.customerId, clock),
                                NewSchedule(req, clock, r.value))
    /\ UNCHANGED <<clock, pc, handlerVars, cleanupVars, emitted, inv>>

\* state.set fails: the handler answers 500 and nothing is stored.
CreateScheduleFails(req) ==
    /\ CanServe
    /\ UNCHANGED awaiting
    /\ UNCHANGED calcVars
    /\ Spend(2)
    /\ UNCHANGED <<store, clock, pc, handlerVars, cleanupVars, emitted, inv>>

Next ==
    \/ PollLoadFails
    \/ PollEmpty
    \/ PollStart
    \/ SkipInactive
    \/ NotDue
    \/ EmitOk
    \/ EmitFails
    \/ CalcThrows
    \/ CalcHangs
    \/ PersistOk
    \/ PersistFails
    \/ CatchPersistOk
    \/ CatchPersistFails
    \/ CleanupLoadOk
    \/ CleanupLoadFails
    \/ CleanupKeep
    \/ CleanupDeleteOk
    \/ CleanupDeleteFails
    \/ CleanupDone
    \/ \E d \in TickSteps : Tick(d)
    \/ \E req \in CreateRequests : CreateScheduleOk(req)
    \/ \E req \in CreateRequests : CreateScheduleFails(req)

Spec == Init /\ [][Next]_vars

(***************************************************************************)
(* The calculator called on its own                                        *)
(***************************************************************************)
\* The clock readings of the calls: every day of CalcMonths months from
\* February 1970 on, just before, at and just after the default 09:00 slot
\* and in the late afternoon.
CalcMonths == 2
CalcDays == MonthStart(1) .. (MonthStart(1 + CalcMonths) - 1)
CalcMinutes == {8 * MinutesPerHour + 59, 9 * MinutesPerHour,
                9 * MinutesPerHour + 1, 17 * MinutesPerHour + 30}
CalcNows == {d * MinutesPerDay + m : d \in CalcDays, m \in CalcMinutes}

\* The arguments of the calls: the five supported tags and an unsupported
\* one; dayOfWeek absent, a weekday name (lower case as bodySchema admits
\* it, or capitalised) or another string; time absent or "HH:MM".
CalcTypes == SupportedTypes \cup {"hourly"}
CalcDayNames == {daysOfWeek[i] : i \in 1..Len(daysOfWeek)}
                    \cup {NoString, "Friday", "funday"}
CalcTimes == {NoTime, <<0, 9, 0, 0>>, <<1, 7, 3, 0>>, <<0, 0, 0, 0>>}
CalcCrons == {NoString, "0 12 * * 1"}
CalcZones == {"UTC", "America/New_York"}

CalcConfigs ==
    {[Config(d, t) EXCEPT !.cronExpression = c] :
        d \in CalcDayNames, t \in CalcTimes, c \in CalcCrons}

CalcCalls ==
    [scheduleType : CalcTypes, config : CalcConfigs, timezone : CalcZones,
     now : CalcNows]

\* A call is about to be made; the handlers are not running and the group
\* is empty.
CalcInit ==
    /\ call \in CalcCalls
    /\ result = NotCalled
    /\ store = <<>>
    /\ clock = call.now
    /\ pc = "calc"
    /\ allSchedules = <<>>
    /\ idx = 0
    /\ currentTime = NoInstant
    /\ scheduleError = NoString
    /\ awaiting = FALSE
    /\ cleanupSchedules = <<>>
    /\ thirtyDaysAgo = NoInstant
    /\ cidx = 0
    /\ emitted = <<>>
    /\ inv = NoInvocation
    /\ used = 0

\* calculateNextRun(scheduleType, config, timezone), its new Date() reading
\* call.now.
Calculate ==
    /\ pc = "calc"
    /\ result = NotCalled
    /\ result' = calculateNextRun(call.scheduleType, call.config,
                                  call.timezone, call.now)
    /\ pc' = "called"
    /\ UNCHANGED <<store, clock, handlerVars, awaiting, cleanupVars, emitted,
                   inv, used, call>>

CalcNext == Calculate

CalcSpec == CalcInit /\ [][CalcNext]_vars

(***************************************************************************)
(* What the properties read from the log                                   *)
(***************************************************************************)
Loaded == inv.startStore
LoadedIds == DOMAIN inv.startStore

\* The load succeeded and the loop was entered.
LoopEntered == inv.outcome \in {"running", "completed", "aborted"}

\* The invocation has returned to its invoker.
InvocationEnded == pc = "idle" /\ inv.outcome \in {"completed", "aborted"}

EmittedIds == {emitted[i].data.scheduleId : i \in 1..Len(emitted)}
EmittedCount(id) ==
    Cardinality({i \in 1..Len(emitted) : emitted[i].data.scheduleId = id})

SetCallIds == {inv.sets[k].id : k \in 1..Len(inv.sets)}
DeleteCallIds == {inv.deletes[k].id : k \in 1..Len(inv.deletes)}
DeletedIds == {inv.deletes[k].id : k \in {j \in 1..Len(inv.deletes) :
                                              inv.deletes[j].ok}}

\* The schedules whose dispatch (emit, recompute, write) succeeded.
DispatchedIds == {inv.sets[k].id : k \in {j \in 1..Len(inv.sets) :
                      inv.sets[j].kind = "dispatch" /\ inv.sets[j].ok}}

LocalCopies(id) == {allSchedules[i] : i \in {j \in 1..Len(allSchedules) :
                                                allSchedules[j].scheduleId = id}}

DaysInMinutes(n) == n * 24 * 60

(***************************************************************************)
(* C1                                                                      *)
(***************************************************************************)
\* C1: within one poll invocation no two file.generate events carry the same
\* scheduleId, however far in the past the schedule's nextRun lies.
C1_AtMostOneTriggerPerSchedule ==
    \A i, j \in 1..Len(emitted) :
        emitted[i].data.scheduleId = emitted[j].data.scheduleId => i = j

\* A schedule three days overdue was dispatched, with exactly one event, in
\* an invocation that ran to its end.
C1_Witness ==
    /\ pc = "idle"
    /\ inv.outcome = "completed"
    /\ \E id \in DispatchedIds :
          /\ Loaded[id].nextRun + DaysInMinutes(3) <= currentTime
          /\ EmittedCount(id) = 1

(***************************************************************************)
(* C7                                                                      *)
(***************************************************************************)
\* C7: for a record loaded with status paused or failed the dispatch pass
\* emits no event and makes no state.set call, whatever its nextRun; and
\* the pruning pass makes no state.delete call for a paused record.
C7_InactiveNeverDispatched ==
    \A id \in LoadedIds :
        /\ Loaded[id].status \in {"paused", "failed"}
              => id \notin EmittedIds /\ id \notin SetCallIds
        /\ Loaded[id].status = "paused"
              => id \notin DeleteCallIds /\ id \in DOMAIN store

\* An invocation that dispatched some schedule has ended with pruning done,
\* and an overdue paused record older than the retention window is still
\* stored as it was.
C7_Witness ==
    /\ pc = "idle"
    /\ inv.outcome = "completed"
    /\ inv.pruned
    /\ DispatchedIds # {}
    /\ \E id \in LoadedIds :
          /\ Loaded[id].status = "paused"
          /\ Loaded[id].nextRun < currentTime
          /\ Loaded[id].updatedAt + DaysInMinutes(30) < inv.prunedAt
          /\ id \in DOMAIN store
          /\ store[id] = Loaded[id]

(***************************************************************************)
(* C8                                                                      *)
(***************************************************************************)
\* C8: an active record loaded with nextRun strictly later than the
\* invocation instant gets no event, no state.set call and no state.delete
\* call from the invocation, and the handler's copy of it is not changed.
C8_NotDueUntouched ==
    LoopEntered =>
      \A id \in LoadedIds :
          (Loaded[id].status = "active" /\ Loaded[id].nextRun > currentTime)
            => /\ id \notin EmittedIds
               /\ id \notin SetCallIds
               /\ id \notin DeleteCallIds
               /\ LocalCopies(id) = {Loaded[id]}
               /\ id \in DOMAIN store

\* An invocation that dispatched another schedule has ended, and a record
\* due one minute after the invocation instant is stored as it was.
C8_Witness ==
    /\ pc = "idle"
    /\ inv.outcome = "completed"
    /\ DispatchedIds # {}
    /\ \E id \in LoadedIds :
          /\ Loaded[id].status = "active"
          /\ Loaded[id].nextRun = currentTime + 1
          /\ store[id] = Loaded[id]

(***************************************************************************)
(* C9                                                                      *)
(***************************************************************************)
\* The record cleanupOldSchedules loaded under this id.
CleanupCopy(id) ==
    CHOOSE r \in {cleanupSchedules[i] : i \in 1..Len(cleanupSchedules)} :
        r.scheduleId = id

\* Failed, and last updated more than 30 days before the pruning instant.
StaleFailed(r) ==
    /\ r.status = "failed"
    /\ r.updatedAt # NoInstant
    /\ inv.prunedAt - r.updatedAt > DaysInMinutes(30)

\* cleanupOldSchedules ran through its loop with no storage call failing.
PruningCompleted ==
    /\ pc = "idle"
    /\ inv.outcome = "completed"
    /\ inv.pruned
    /\ inv.faults \cap {"cleanupLoad", "delete"} = {}

\* C9: every state.delete call of the pruning pass is for a record that is
\* failed and was last updated more than 30 days before the pruning instant;
\* a pruning pass that runs to its end without a storage failure has deleted
\* every such record it loaded; and a record is missing from the store only
\* if the pruning pass deleted it, so active and paused records and failed
\* records inside the window stay stored.
C9_PruneExactlyStaleFailed ==
    /\ \A id \in DeleteCallIds : StaleFailed(CleanupCopy(id))
    /\ PruningCompleted =>
          \A i \in 1..Len(cleanupSchedules) :
              StaleFailed(cleanupSchedules[i]) =>
                  /\ cleanupSchedules[i].scheduleId \in DeletedIds
                  /\ cleanupSchedules[i].scheduleId \notin DOMAIN store
    /\ \A id \in LoadedIds : id \notin DOMAIN store => id \in DeletedIds

\* A pruning pass ended having deleted a failed record 31 days old and kept
\* a failed record 29 days old.
C9_Witness ==
    /\ PruningCompleted
    /\ \E old, young \in LoadedIds :
          /\ Loaded[old].status = "failed"
          /\ Loaded[old].updatedAt = inv.prunedAt - DaysInMinutes(31)
          /\ old \notin DOMAIN store
          /\ Loaded[young].status = "failed"
          /\ Loaded[young].updatedAt = inv.prunedAt - DaysInMinutes(29)
          /\ young \in DOMAIN store
          /\ store[young] = Loaded[young]

(***************************************************************************)
(* C10                                                                     *)
(***************************************************************************)
LoadFailed == "load" \in inv.faults

\* C10: the step in which the load fails leaves the stored group as it is
\* and ends the invocation, and that invocation emits no event and makes no
\* state.set or state.delete call.
C10_LoadFailureChangesNothing ==
    /\ [](LoadFailed =>
            /\ pc = "idle"
            /\ emitted = <<>>
            /\ inv.sets = <<>>
            /\ inv.deletes = <<>>
            /\ ~inv.pruned)
    /\ [][(inv'.n # inv.n /\ "load" \in inv'.faults) => store' = store]_vars

\* The load failed while the store held a due active schedule and a failed
\* record older than the retention window.
C10_Witness ==
    /\ LoadFailed
    /\ \E id \in DOMAIN store :
          store[id].status = "active" /\ store[id].nextRun <= clock
    /\ \E id \in DOMAIN store :
          /\ store[id].status = "failed"
          /\ store[id].updatedAt + DaysInMinutes(30) < clock
    /\ store = Loaded

(***************************************************************************)
(* C2                                                                      *)
(***************************************************************************)
\* C2: whatever error a record raised, a poll invocation whose load
\* succeeded returns only after its loop has gone through every record of
\* the batch and after the pruning pass has been entered.
C2_BatchNeverAborted ==
    InvocationEnded => idx > Len(allSchedules) /\ inv.pruned

(***************************************************************************)
(* C3                                                                      *)
(***************************************************************************)
DueAtLoad(id) == Loaded[id].nextRun <= currentTime
Supported(id) == Loaded[id].scheduleType \in SupportedTypes

\* C3: a poll invocation, with no storage or emit failure, over exactly
\* three active schedules, one due, one not due and one with an unsupported
\* scheduleType, emits exactly one event, leaves the not-due record as
\* stored and leaves the unsupported one stored as failed with a lastError.
C3_ThreeScheduleScenario ==
    (InvocationEnded /\ inv.faults = {} /\ Cardinality(LoadedIds) = 3) =>
      \A a, b, c \in LoadedIds :
          ( /\ \A id \in LoadedIds : Loaded[id].status = "active"
            /\ Supported(a) /\ DueAtLoad(a)
            /\ Supported(b) /\ ~DueAtLoad(b)
            /\ ~Supported(c) )
          => /\ Len(emitted) = 1
             /\ b \notin SetCallIds
             /\ store[b] = Loaded[b]
             /\ c \in DOMAIN store
             /\ store[c].status = "failed"
             /\ store[c].lastError # NoString

(***************************************************************************)
(* C4                                                                      *)
(***************************************************************************)
\* C4: when a poll invocation whose load succeeded returns, and no emit call
\* failed in it, every record loaded active with nextRun at or before the
\* invocation instant has had its event emitted.
C4_EveryDueScheduleTriggered ==
    (InvocationEnded /\ "emit" \notin inv.faults) =>
      \A id \in LoadedIds :
          (Loaded[id].status = "active" /\ DueAtLoad(id)) => id \in EmittedIds

(***************************************************************************)
(* C5                                                                      *)
(***************************************************************************)
NextRunAt(r, t) ==
    calculateNextRun(r.scheduleType, r.config, r.timezone, t).value

\* The loaded record with lastRun and updatedAt set to now, executionCount
\* raised by one, nextRun computed at instant t, and nothing else changed.
DispatchedRecord(old, now, t) ==
    [old EXCEPT !.lastRun = now,
                !.updatedAt = now,
                !.executionCount = old.executionCount + 1,
                !.nextRun = NextRunAt(old, t)]

\* C5: the record persisted by a successful dispatch is the
\* loaded one with lastRun = updatedAt = now, executionCount + 1, status
\* active, and nextRun the calculator's result at the invocation instant now.
C5_NextRunComputedAtInvocationInstant ==
    \A id \in DispatchedIds :
        /\ id \in DOMAIN store
        /\ store[id].status = "active"
        /\ store[id] = DispatchedRecord(Loaded[id], currentTime, currentTime)

(***************************************************************************)
(* C6                                                                      *)
(***************************************************************************)
\* C6: each successful dispatch stores executionCount one higher and a
\* nextRun strictly later than the nextRun it replaces and strictly later
\* than the instant of the poll that dispatched it.
C6_DispatchAdvancesNextRun ==
    \A id \in DispatchedIds :
        /\ store[id].executionCount = Loaded[id].executionCount + 1
        /\ store[id].nextRun > Loaded[id].nextRun
        /\ store[id].nextRun > currentTime

(***************************************************************************)
(* C11                                                                     *)
(***************************************************************************)
\* The schedules whose write after a successful emit failed.
WriteFailedIds == {inv.sets[k].id : k \in {j \in 1..Len(inv.sets) :
                      inv.sets[j].kind = "dispatch" /\ ~inv.sets[j].ok}}

\* The schedules the per-record catch has stored as failed.
QuarantinedIds == {inv.sets[k].id : k \in {j \in 1..Len(inv.sets) :
                      inv.sets[j].kind = "quarantine" /\ inv.sets[j].ok}}

IsQuarantined(id) ==
    /\ id \in DOMAIN store
    /\ store[id].status = "failed"
    /\ store[id].lastError # NoString

CatchWrites(id) ==
    /\ pc = "catch"
    /\ scheduleError # NoString
    /\ Current.scheduleId = id

\* C12: a step that turns a stored record from active to failed is the write
\* of the per-record catch for that record, after an error raised while it
\* was processed; and no step turns a stored failed or paused record active.
C12_StatusTransitions ==
    [][\A id \in DOMAIN store \cap DOMAIN store' :
          /\ (store[id].status = "active" /\ store'[id].status = "failed")
                => CatchWrites(id)
          /\ store[id].status \in {"failed", "paused"}
                => store'[id].status # "active"]_vars

\* An invocation has ended that turned an active record failed, with a
\* record loaded failed or paused still stored with that status.
C12_Witness ==
    /\ InvocationEnded
    /\ \E id \in QuarantinedIds :
          Loaded[id].status = "active" /\ store[id].status = "failed"
    /\ \E id \in LoadedIds :
          /\ Loaded[id].status \in {"failed", "paused"}
          /\ id \in DOMAIN store
          /\ store[id].status = Loaded[id].status

(***************************************************************************)
(* C13                                                                     *)
(***************************************************************************)
\* C13: when an invocation in which no storage or emit call failed ends,
\* every record it loaded is stored with its executionCount raised by the
\* number of events emitted for it, never lowered.
C13_ExecutionCountCountsTriggers ==
    (InvocationEnded /\ inv.faults = {}) =>
      \A id \in LoadedIds \cap DOMAIN store :
          /\ store[id].executionCount >= Loaded[id].executionCount
          /\ store[id].executionCount =
                Loaded[id].executionCount + EmittedCount(id)

(***************************************************************************)
(* What the calculator is to return, stated on the calendar                *)
(***************************************************************************)
WeekdayNames == {daysOfWeek[i] : i \in 1..Len(daysOfWeek)}

\* A config the API admits: dayOfWeek absent or a weekday name, time absent
\* or an hour and a minute of the day.
ValidConfig(config) ==
    /\ config.dayOfWeek = NoString \/ ToLowerCase(config.dayOfWeek) \in WeekdayNames
    /\ \/ config.time = NoTime
       \/ /\ config.time[1] * 10 + config.time[2] < HoursPerDay
          /\ config.time[3] * 10 + config.time[4] < MinutesPerHour

\* The minute of the day config.time names, 09:00 when absent.
SlotMinute(config) ==
    IF config.time = NoTime THEN 9 * 60
    ELSE (config.time[1] * 10 + config.time[2]) * 60
            + config.time[3] * 10 + config.time[4]

\* The weekday config.dayOfWeek names, 0 = Sunday .. 6 = Saturday, Monday
\* when absent.
TargetWeekday(config) ==
    IF config.dayOfWeek = NoString THEN 1
    ELSE CHOOSE w \in 0..6 : daysOfWeek[w + 1] = ToLowerCase(config.dayOfWeek)

\* Weekday of a day number (days since Thursday 1970-01-01).
WeekdayOfDay(d) == (d + 4) % 7

SlotOn(d, config) == d * 24 * 60 + SlotMinute(config)

DaysOfMonth(m) == MonthStart(m) .. (MonthStart(m + 1) - 1)

FirstWeekdayOfMonth(m, w) ==
    CHOOSE d \in DaysOfMonth(m) :
        /\ WeekdayOfDay(d) = w
        /\ \A e \in DaysOfMonth(m) : WeekdayOfDay(e) = w => d <= e

LastWeekdayOfMonth(m, w) ==
    CHOOSE d \in DaysOfMonth(m) :
        /\ WeekdayOfDay(d) = w
        /\ \A e \in DaysOfMonth(m) : WeekdayOfDay(e) = w => e <= d

\* The slot of the period now lies in (k = 0) and of the period after it
\* (k = 1): the day, the Sunday-to-Saturday week, the month.
PeriodSlot(scheduleType, config, now, k) ==
    CASE scheduleType \in {"daily", "custom"} ->
           SlotOn(DayOf(now) + k, config)
      [] scheduleType = "weekly" ->
           SlotOn(DayOf(now) - WeekdayOfDay(DayOf(now))
                     + TargetWeekday(config) + 7 * k, config)
      [] scheduleType = "monthly-first-weekday" ->
           SlotOn(FirstWeekdayOfMonth(MonthOf(now) + k, TargetWeekday(config)),
                  config)
      [] scheduleType = "monthly-last-weekday" ->
           SlotOn(LastWeekdayOfMonth(MonthOf(now) + k, TargetWeekday(config)),
                  config)

\* A call with a supported tag and a valid config has been made.
ValidCallMade ==
    /\ pc = "called"
    /\ call.scheduleType \in SupportedTypes
    /\ ValidConfig(call.config)

CurrentSlot == PeriodSlot(call.scheduleType, call.config, call.now, 0)
FollowingSlot == PeriodSlot(call.scheduleType, call.config, call.now, 1)

(***************************************************************************)
(* C14                                                                     *)
(***************************************************************************)
\* C14: for each of the five schedule types and every valid config the
\* calculator returns an instant strictly after now: the slot of the current
\* period when that slot is strictly after now, the slot of the following
\* period when it is at or before now.
C14_ReturnsNextSlotAfterNow ==
    ValidCallMade =>
        /\ result.kind = "return"
        /\ result.value > call.now
        /\ CurrentSlot > call.now => result.value = CurrentSlot
        /\ CurrentSlot <= call.now => result.value = FollowingSlot

\* A call made exactly at the slot of the current period returned the slot
\* of the following one.
C14_Witness ==
    /\ ValidCallMade
    /\ call.scheduleType = "daily"
    /\ CurrentSlot = call.now
    /\ result.value = call.now + 24 * 60

(***************************************************************************)
(* C15                                                                     *)
(***************************************************************************)
\* The handler's promise resolved: the invocation returned after its load
\* failed, after finding no schedule, after cleanupOldSchedules returned, or
\* from the outer catch.
Resolved == inv.outcome \in {"loadFailed", "empty", "completed", "aborted"}

PruningFaults == {"cleanupLoad", "delete"}

\* C15: an invocation that has ended has resolved, whichever of its calls
\* (load, emit, record write, cleanupOldSchedules' read or delete) failed;
\* and the step in which a call of cleanupOldSchedules fails leaves the
\* emitted events and the stored records as they are.
C15_ErrorsNeverPropagate ==
    /\ []((pc = "idle" /\ inv.n > 0) => Resolved)
    /\ [][(inv'.n = inv.n /\ inv'.faults \cap PruningFaults # inv.faults \cap PruningFaults)
            => /\ emitted' = emitted
               /\ store' = store
               /\ pc' = "idle"
               /\ inv'.outcome = "completed"]_vars

\* An invocation that dispatched a schedule has ended after state.delete
\* failed in cleanupOldSchedules; the dispatched record is stored and its
\* event emitted.
C15_Witness ==
    /\ pc = "idle"
    /\ Resolved
    /\ "delete" \in inv.faults
    /\ \E id \in DispatchedIds :
          /\ EmittedCount(id) = 1
          /\ store[id].executionCount = Loaded[id].executionCount + 1

(***************************************************************************)
(* C16                                                                     *)
(***************************************************************************)
\* The instant at which the stored nextRun of a record was computed: its
\* lastRun once it has been dispatched, its createdAt before.
ComputedAt(r) == IF r.lastRun = NoInstant THEN r.createdAt ELSE r.lastRun

\* The record is as CreateSchedule stored it.
AsCreated(r) ==
    r.createdAt >= StartInstant /\ r.lastRun = NoInstant /\ r.updatedAt = r.createdAt

\* C16: every stored active record has a nextRun, at or after the instant at
\* which it was computed; and a record as CreateSchedule stored it is active
\* with executionCount 0.
C16_ActiveNextRunNotBeforeComputation ==
    \A id \in DOMAIN store :
        /\ store[id].status = "active"
              => /\ store[id].nextRun # NoInstant
                 /\ store[id].nextRun >= ComputedAt(store[id])
        /\ AsCreated(store[id])
              => store[id].status = "active" /\ store[id].executionCount = 0

(***************************************************************************)
(* C17                                                                     *)
(***************************************************************************)
\* The step is a CreateSchedule request that stored its record: it takes one
\* event and neither moves the clock nor belongs to the checker.
CreationStep == used' = used + 1 /\ clock' = clock /\ inv' = inv

\* C17: a creation stores its record under an id no stored record has, and
\* leaves every stored record as it is, also when a record of the same
\* customer was created at the same clock instant.
C17_CreationNeverOverwrites ==
    [][CreationStep =>
          /\ DOMAIN store' # DOMAIN store
          /\ \A id \in DOMAIN store :
                id \in DOMAIN store' /\ store'[id] = store[id]]_vars

(***************************************************************************)
(* C18                                                                     *)
(***************************************************************************)
WeeklyCallMade == ValidCallMade /\ call.scheduleType = "weekly"

Today == DayOf(call.now)
TodayIsTarget == WeekdayOfDay(Today) = TargetWeekday(call.config)

\* C18: the weekly calculator returns an instant on config.dayOfWeek at
\* config.time, after now and at most 7 days after it: today's slot when
\* today is the target weekday and the slot is after now, the slot 7 days
\* on when today is the target weekday and the slot is at or before now, and
\* otherwise the slot on the target weekday 1 to 6 days ahead.
C18_WeeklyNextOccurrence ==
    WeeklyCallMade =>
        /\ result.kind = "return"
        /\ WeekdayOfDay(DayOf(result.value)) = TargetWeekday(call.config)
        /\ result.value % (24 * 60) = SlotMinute(call.config)
        /\ result.value > call.now
        /\ result.value <= call.now + 7 * 24 * 60
        /\ (TodayIsTarget /\ SlotOn(Today, call.config) > call.now)
              => result.value = SlotOn(Today, call.config)
        /\ (TodayIsTarget /\ SlotOn(Today, call.config) <= call.now)
              => result.value = SlotOn(Today + 7, call.config)
        /\ ~TodayIsTarget => DayOf(result.value) - Today \in 1..6

\* A weekly call made on the target weekday after the slot had passed
\* returned the slot 7 days on.
C18_Witness ==
    /\ WeeklyCallMade
    /\ TodayIsTarget
    /\ SlotOn(Today, call.config) < call.now
    /\ result.value = SlotOn(Today + 7, call.config)

(***************************************************************************)
(* C19                                                                     *)
(***************************************************************************)
MonthlyCallMade ==
    /\ ValidCallMade
    /\ call.scheduleType \in {"monthly-first-weekday", "monthly-last-weekday"}

\* The slot on the first (or last) day of month m that falls on the target
\* weekday.
MonthlySlot(m) ==
    IF call.scheduleType = "monthly-first-weekday"
    THEN SlotOn(FirstWeekdayOfMonth(m, TargetWeekday(call.config)), call.config)
    ELSE SlotOn(LastWeekdayOfMonth(m, TargetWeekday(call.config)), call.config)

\* C19: a monthly calculator returns the slot on the first (monthly-first-
\* weekday) or last (monthly-last-weekday) date of the current month that
\* falls on config.dayOfWeek when that slot is after now, else the slot on
\* the first or last such date of the following month; the result is never
\* in a later month.
C19_MonthlyFirstAndLastWeekday ==
    MonthlyCallMade =>
        /\ result.kind = "return"
        /\ IF MonthlySlot(MonthOf(call.now)) > call.now
           THEN result.value = MonthlySlot(MonthOf(call.now))
           ELSE result.value = MonthlySlot(MonthOf(call.now) + 1)
        /\ MonthOf(result.value) \in {MonthOf(call.now), MonthOf(call.now) + 1}

\* A monthly-last-weekday call made after the last target weekday of the
\* month returned the last one of the following month.
C19_Witness ==
    /\ MonthlyCallMade
    /\ call.scheduleType = "monthly-last-weekday"
    /\ MonthlySlot(MonthOf(call.now)) < call.now
    /\ result.value = MonthlySlot(MonthOf(call.now) + 1)
    /\ MonthOf(result.value) = MonthOf(call.now) + 1

(***************************************************************************)
(* C20                                                                     *)
(***************************************************************************)
CustomCallMade == pc = "called" /\ call.scheduleType = "custom"

C21_CalculatorIsTotal ==
    pc = "called" =>
        /\ result.kind # "hang"
        /\ call.scheduleType \in SupportedTypes
              => result.kind = "return" /\ result.value # NoInstant
        /\ call.scheduleType \notin SupportedTypes
              => /\ result.kind = "throw"
                 /\ result.message = "Unsupported schedule type"

WritesOf(id) == {k \in 1..Len(inv.sets) : inv.sets[k].id = id /\ inv.sets[k].ok}

\* The step is a successful state.set of the checker.
CheckerWrites ==
    /\ inv'.n = inv.n
    /\ Len(inv'.sets) = Len(inv.sets) + 1
    /\ inv'.sets[Len(inv'.sets)].ok

WrittenId == inv'.sets[Len(inv'.sets)].id

\* The fields the checker never assigns are those of the loaded record.
KeepsLoadedIdentity(r, loaded) ==
    [r EXCEPT !.status = loaded.status,
              !.lastError = loaded.lastError,
              !.updatedAt = loaded.updatedAt,
              !.lastRun = loaded.lastRun,
              !.nextRun = loaded.nextRun,
              !.executionCount = loaded.executionCount] = loaded

\* The step belongs to the running pass (it is no creation and no tick).
CheckerStep == inv'.n = inv.n /\ (inv' # inv \/ pc' # pc \/ idx' # idx \/ cidx' # cidx)

\* C23: in one pass a record is successfully written at most once; a write
\* is for a record of the snapshot, finds it stored as it was loaded, stores
\* the loaded record with only the fields the pass assigns changed, and
\* touches no other record; and no step of the pass changes or removes a
\* record that was not in the snapshot.
C23_OneWriterPerRecordPerPass ==
    /\ [](\A id \in DOMAIN store : Cardinality(WritesOf(id)) <= 1)
    /\ [][CheckerWrites =>
            /\ WrittenId \in LoadedIds
            /\ WrittenId \in DOMAIN store
            /\ store[WrittenId] = Loaded[WrittenId]
            /\ KeepsLoadedIdentity(store'[WrittenId], Loaded[WrittenId])
            /\ DOMAIN store' = DOMAIN store
            /\ \A k \in DOMAIN store \ {WrittenId} : store'[k] = store[k]]_vars
    /\ [][CheckerStep =>
            \A id \in DOMAIN store \ LoadedIds :
                id \in DOMAIN store' /\ store'[id] = store[id]]_vars

\* A pass has ended that dispatched a record and marked none failed, while a
\* creation served during the pass stored a record that is still as created.
C23_Witness ==
    /\ pc = "idle"
    /\ inv.outcome = "completed"
    /\ \E id \in DispatchedIds : Cardinality(WritesOf(id)) = 1
    /\ \E id \in DOMAIN store \ LoadedIds :
          /\ AsCreated(store[id])
          /\ store[id].createdAt >= currentTime

(***************************************************************************)
(* C24                                                                     *)
(***************************************************************************)
\* C24: every record cleanupOldSchedules calls state.delete for was loaded
\* by this invocation with status failed and an updatedAt more than 30 days
\* before the pruning instant, and has not been written by this invocation:
\* a record the invocation itself marked failed is not among them.
C24_PrunesOnlyOldFailures ==
    \A id \in DeleteCallIds :
        /\ id \in LoadedIds
        /\ Loaded[id].status = "failed"
        /\ Loaded[id].updatedAt # NoInstant
        /\ inv.prunedAt - Loaded[id].updatedAt > DaysInMinutes(30)
        /\ id \notin SetCallIds

\* An invocation has ended that marked a record failed, which is still
\* stored, and deleted another record, failed for 31 days.
C24_Witness ==
    /\ pc = "idle"
    /\ inv.outcome = "completed"
    /\ \E id \in QuarantinedIds :
          /\ Loaded[id].status = "active"
          /\ id \in DOMAIN store
          /\ store[id].status = "failed"
          /\ id \notin DeleteCallIds
    /\ \E id \in DeletedIds :
          /\ Loaded[id].updatedAt = inv.prunedAt - DaysInMinutes(31)
          /\ id \notin DOMAIN store

(***************************************************************************)
(* C25                                                                     *)
(***************************************************************************)
\* Record r is record base but for status, lastError and updatedAt.
OnlyQuarantineFields(r, base) ==
    [r EXCEPT !.status = base.status,
              !.lastError = base.lastError,
              !.updatedAt = base.updatedAt] = base

\* The loaded record with the in-place update of a dispatch whose nextRun
\* was computed at one of the calculator's clock readings for it.
DispatchUpdates(id) ==
    {[Loaded[id] EXCEPT !.lastRun = currentTime,
                        !.executionCount = @ + 1,
                        !.nextRun = NextRunAt(Loaded[id], p[2])] :
        p \in {q \in inv.calcAt : q[1] = id}}

\* C25 as claimed: the record the per-record catch has stored is failed and
\* differs from the loaded record in status, lastError and updatedAt only,
\* whatever the error was.
C25_QuarantineKeepsLoadedFields ==
    \A id \in QuarantinedIds :
        /\ id \in DOMAIN store
        /\ store[id].status = "failed"
        /\ OnlyQuarantineFields(store[id], Loaded[id])

\* C25 as amended: the same when the error came from the emit or from the
\* calculator; when it was a failed state.set after the emit, the stored
\* record differs in status, lastError and updatedAt only from the loaded
\* record as updated in place for the dispatch (lastRun = now, the
\* recomputed nextRun, executionCount + 1).
C25_QuarantineKeepsFieldsOrDispatchUpdate ==
    \A id \in QuarantinedIds :
        /\ id \in DOMAIN store
        /\ store[id].status = "failed"
        /\ IF id \in WriteFailedIds
           THEN \E base \in DispatchUpdates(id) :
                    OnlyQuarantineFields(store[id], base)
           ELSE OnlyQuarantineFields(store[id], Loaded[id])

\* An invocation has ended in which one record was quarantined after its
\* write failed and is stored with executionCount raised and nextRun
\* advanced.
C25_Witness ==
    /\ InvocationEnded
    /\ \E id \in QuarantinedIds \cap WriteFailedIds :
          /\ store[id].status = "failed"
          /\ store[id].executionCount = Loaded[id].executionCount + 1
          /\ store[id].lastRun = currentTime
          /\ store[id].nextRun > Loaded[id].nextRun

=============================================================================
